---- MODULE Spec2Model ----
(***************************************************************************)
(* A model of tetherback (src/tetherback/tetherback.py, adb_stuff.py,      *)
(* adb_wrapper.py): main() as a state machine, one action per step of      *)
(* main / backup_partition, with the device and the adb bridge as the      *)
(* environment.  Python's None is the string "None".                       *)
(***************************************************************************)
EXTENDS Integers, Sequences, FiniteSets, TLC

VARIABLES
    pc,         \* position of main() / backup_partition()
    args,       \* the argparse namespace
    host,       \* [platform, adb]: sys.platform and what get_version gives
    device,     \* [twrp, base, parts, fstab, content]: the device as found
    adbversion, \* main's local adbversion
    partmap,    \* main's local partmap: sequence of [key, pi]
    plan,       \* main's local plan: sequence of [key, bp]
    missing,    \* main's local missing
    err,        \* the diagnostic the run ended with, "" while running
    cmds,       \* every adb command issued so far: sequence of [cmd, part]
    fs,         \* host filesystem: [dir, files, log]
    idx,        \* position of the for loop of main in plan
    bk,         \* locals of the running backup_partition
    mtab,       \* the lines of the device's mount table that match pi
    md5dev,     \* /tmp/md5in, /tmp/md5out and md5sum on the device
    shown       \* show_partmap_and_plan has printed the map and the plan

vars == <<pc, args, host, device, adbversion, partmap, plan, missing, err,
          cmds, fs, idx, bk, mtab, md5dev, shown>>

----------------------------------------------------------------------------
(* Bounds of the model *)

MaxVerLen == 3
MaxExtra == 2
MaxLen == 4
MaxParts == 2
MaxLines == 2

----------------------------------------------------------------------------
(* Generic helpers *)

None == "None"

Min(a, b) == IF a < b THEN a ELSE b

Range(s) == {s[i] : i \in 1..Len(s)}

SeqsUpTo(S, n) == UNION {[1..k -> S] : k \in 0..n}

\* Python's tuple comparison a < b: lexicographic, a proper prefix is smaller
RECURSIVE TupleLess(_, _)
TupleLess(a, b) ==
    IF b = <<>> THEN FALSE
    ELSE IF a = <<>> THEN TRUE
    ELSE IF Head(a) < Head(b) THEN TRUE
    ELSE IF Head(a) > Head(b) THEN FALSE
    ELSE TupleLess(Tail(a), Tail(b))

\* collections.OrderedDict as a sequence of [key, val]
OdictKeys(d) == [i \in 1..Len(d) |-> d[i].key]

OdictHas(d, k) == \E i \in 1..Len(d) : d[i].key = k

OdictGet(d, k) == d[CHOOSE i \in 1..Len(d) : d[i].key = k].val

\* d[k] = v: a new key goes last, an old key keeps its place
OdictSet(d, k, v) ==
    IF OdictHas(d, k)
    THEN [i \in 1..Len(d) |-> IF d[i].key = k THEN [key |-> k, val |-> v] ELSE d[i]]
    ELSE Append(d, [key |-> k, val |-> v])

RECURSIVE OdictUpdate(_, _)
\* odict(pairs) / d.update(pairs)
OdictUpdate(d, pairs) ==
    IF pairs = <<>> THEN d
    ELSE OdictUpdate(OdictSet(d, Head(pairs).key, Head(pairs).val), Tail(pairs))

----------------------------------------------------------------------------
(* Types of the program *)

\* adbxp = Enum('AdbTransport', 'tcp pipe_xo pipe_b64 pipe_bin')
adbxp == {"tcp", "pipe_xo", "pipe_b64", "pipe_bin"}

PartInfo(partname, devname, partn, size, mountpoint, fstype) ==
    [partname |-> partname, devname |-> devname, partn |-> partn,
     size |-> size, mountpoint |-> mountpoint, fstype |-> fstype]

BackupPlan(fn, taropts) == [fn |-> fn, taropts |-> taropts]

StandardNames == <<"boot", "recovery", "system", "userdata", "cache">>

\* sys.platform.startswith('linux')
StartsWithLinux(platform) == platform \in {"linux", "linux2"}

----------------------------------------------------------------------------
(* sensible_transport *)

V_1_0_31 == <<1, 0, 31>>
V_1_0_32 == <<1, 0, 32>>

sensible_transport_nodowngrade(transport, version, platform) ==
    IF transport = "pipe_bin" THEN
        IF ~TupleLess(version, V_1_0_32) THEN "pipe_xo"
        ELSE IF StartsWithLinux(platform) THEN "tcp"
        ELSE transport
    ELSE IF transport = None THEN
        IF ~TupleLess(version, V_1_0_32) THEN "pipe_xo" ELSE "tcp"
    ELSE transport

sensible_transport(transport, version, platform) ==
    IF transport = "pipe_xo" /\ TupleLess(version, V_1_0_32) THEN "tcp"
    ELSE IF transport = "pipe_bin" THEN
        IF ~TupleLess(version, V_1_0_32) THEN "pipe_xo"
        ELSE IF StartsWithLinux(platform) THEN "tcp"
        ELSE transport
    ELSE IF transport = None THEN
        IF ~TupleLess(version, V_1_0_32) THEN "pipe_xo" ELSE "tcp"
    ELSE transport

----------------------------------------------------------------------------
(* plan_backup *)

\* [x for x in names if getattr(args, x)]
Selected(a, names) == SelectSeq(names, LAMBDA x : a[x])

\* ((p, BackupPlan('%s<ext>' % p, None)) for p in rp)
RawPairs(rp, ext) ==
    [i \in 1..Len(rp) |-> [key |-> rp[i], val |-> BackupPlan(rp[i] \o ext, None)]]

\* ((p, BackupPlan('%s.ext4.win' % p, '-p')) for p in mp)
TarPairs(mp) ==
    [i \in 1..Len(mp) |-> [key |-> mp[i], val |-> BackupPlan(mp[i] \o ".ext4.win", "-p")]]

\* the globs of the categories that are kept
DataOmit_swapped(a) ==
    (IF a.media THEN <<"media*">> ELSE <<>>)
        \o (IF a.data_cache THEN <<"*-cache">> ELSE <<>>)

\* data_omit of plan_backup
DataOmit(a) ==
    (IF ~a.media THEN <<"media*">> ELSE <<>>)
        \o (IF ~a.data_cache THEN <<"*-cache">> ELSE <<>>)

RECURSIVE Excludes(_)
\* ''.join(' --exclude="%s"' % x for x in data_omit)
Excludes(omit) ==
    IF omit = <<>> THEN ""
    ELSE " --exclude=\"" \o Head(omit) \o "\"" \o Excludes(Tail(omit))

plan_backup_sorted(a) ==
    IF a.nandroid
    THEN OdictUpdate(<<>>, RawPairs(
             Selected(a, <<"boot", "recovery", "system", "userdata", "cache">>) \o a.extra,
             ".tar.gz"))
    ELSE LET p1 == OdictUpdate(<<>>, RawPairs(
                       a.extra \o Selected(a, <<"boot", "recovery">>), ".emmc.win"))
             p2 == OdictUpdate(p1, TarPairs(Selected(a, <<"cache", "system">>)))
         IN  IF a.userdata
             THEN OdictSet(p2, "userdata",
                           BackupPlan("data.ext4.win", "-p" \o Excludes(DataOmit(a))))
             ELSE p2

plan_backup(a) ==
    IF a.nandroid
    THEN OdictUpdate(<<>>, RawPairs(
             a.extra \o Selected(a, <<"boot", "recovery", "system", "userdata", "cache">>),
             ".tar.gz"))
    ELSE LET p1 == OdictUpdate(<<>>, RawPairs(
                       a.extra \o Selected(a, <<"boot", "recovery">>), ".emmc.win"))
             p2 == OdictUpdate(p1, TarPairs(Selected(a, <<"cache", "system">>)))
         IN  IF a.userdata
             THEN OdictSet(p2, "userdata",
                           BackupPlan("data.ext4.win", "-p" \o Excludes(DataOmit(a))))
             ELSE p2

----------------------------------------------------------------------------
(* build_partmap *)

\* a name filed as the device spells it
Lower_asis(s) == s

\* str.lower() on the partition names the model's devices use
Lower(s) ==
    CASE s = "SYSTEM" -> "system"
      [] s = "USERDATA" -> "userdata"
      [] s = "CACHE" -> "cache"
      [] s = "BOOT" -> "boot"
      [] s = "APP" -> "app"
      [] OTHER -> s

\* lines 137-144: the key a partition is filed under
Canonical(partname, mountpoint) ==
    IF partname = "system" \/ mountpoint = "/system" THEN "system"
    ELSE IF partname = "userdata" \/ mountpoint = "/data" THEN "userdata"
    ELSE IF partname = "cache" \/ mountpoint = "/cache" THEN "cache"
    ELSE partname

\* fstab.get('/dev/block/%s' % devname, (None, None))
FstabGet(fstab, devname) ==
    IF OdictHas(fstab, "/dev/block/" \o devname)
    THEN OdictGet(fstab, "/dev/block/" \o devname)
    ELSE [mountpoint |-> None, fstype |-> None]

\* one pass of the for loop of build_partmap over partition record u
PartEntry(fstab, u) ==
    LET m == FstabGet(fstab, u.DEVNAME)
        partname == Lower(u.PARTNAME)
    IN  [key |-> Canonical(partname, m.mountpoint),
         val |-> PartInfo(partname, u.DEVNAME, u.PARTN, u.size, m.mountpoint, m.fstype)]

\* A line of an attribute record is the sequence of its pieces between '='
\* signs: <<"">> is the empty line, a line of one piece has no '='.
EmptyLine == <<"">>

RECURSIVE JoinEq(_)
\* '='.join(pieces): the value l.split('=',1)[1] of a line
JoinEq(pieces) ==
    IF Len(pieces) = 1 THEN pieces[1]
    ELSE pieces[1] \o "=" \o JoinEq(Tail(pieces))

RECURSIVE UeventFrom(_, _)
\* the for loop of uevent_dict over the lines left, d being the dict so far;
\* adb_stuff never imports stderr, so the print of line 55 raises NameError
UeventFrom(lines, d) ==
    IF lines = <<>> THEN [raises |-> "", d |-> d]
    ELSE IF Head(lines) = EmptyLine THEN UeventFrom(Tail(lines), d)
    ELSE IF Len(Head(lines)) = 1 THEN [raises |-> "NameError", d |-> <<>>]
    ELSE UeventFrom(Tail(lines), OdictSet(d, Head(lines)[1], JoinEq(Tail(Head(lines)))))

\* lines 48-59 of adb_stuff
uevent_dict(lines) == UeventFrom(lines, <<>>)

\* the decimal numerals int() meets in the model
Numerals == <<"0", "1", "2", "3", "4", "5">>

IsNumeral(t) == \E i \in 1..Len(Numerals) : Numerals[i] = t

\* int(t) of a numeral
IntOf(t) == (CHOOSE i \in 1..Len(Numerals) : Numerals[i] = t) - 1

\* a count that cannot be read taken for no partitions
ReadNparts_lenient(dev) ==
    LET u == uevent_dict(dev.base)
    IN  IF u.raises # "" THEN [raises |-> u.raises, n |-> 0]
        ELSE IF ~OdictHas(u.d, "NPARTS") THEN [raises |-> "", n |-> 0]
        ELSE IF ~IsNumeral(OdictGet(u.d, "NPARTS")) THEN [raises |-> "", n |-> 0]
        ELSE [raises |-> "", n |-> IntOf(OdictGet(u.d, "NPARTS"))]

\* lines 123-124: nparts = int(d['NPARTS']), or the exception in its way
ReadNparts(dev) ==
    LET u == uevent_dict(dev.base)
    IN  IF u.raises # "" THEN [raises |-> u.raises, n |-> 0]
        ELSE IF ~OdictHas(u.d, "NPARTS") THEN [raises |-> "KeyError", n |-> 0]
        ELSE IF ~IsNumeral(OdictGet(u.d, "NPARTS")) THEN [raises |-> "ValueError", n |-> 0]
        ELSE [raises |-> "", n |-> IntOf(OdictGet(u.d, "NPARTS"))]

\* the partitions filed from the last to the first
build_partmap_keepfirst(dev) ==
    LET r == ReadNparts(dev)
    IN  [raises |-> r.raises,
         partmap |-> OdictUpdate(<<>>, [i \in 1..r.n |->
                                          PartEntry(dev.fstab, dev.parts[r.n + 1 - i])])]

\* lines 119-150; the partition records are well formed, dev.parts[i] being
\* what uevent_dict and the size file give for partition i
build_partmap(dev) ==
    LET r == ReadNparts(dev)
    IN  [raises |-> r.raises,
         partmap |-> OdictUpdate(<<>>, [i \in 1..r.n |-> PartEntry(dev.fstab, dev.parts[i])])]

----------------------------------------------------------------------------
(* The run: initial state *)

NoErr == [type |-> "", msg |-> "", names |-> {}]

NoBk == [key |-> "", pi |-> None, bp |-> None, round |-> 0, port |-> 0,
         child |-> "none", sock |-> "none", wire |-> <<>>, payload |-> <<>>,
         out |-> "none", localmd5 |-> 0, devicemd5 |-> -1]

NoMd5 == [fifo |-> FALSE, outfile |-> FALSE, out |-> <<>>, running |-> FALSE]

NoFs == [dir |-> FALSE, files |-> <<>>, log |-> <<>>]

\* main() at position pos with these values of its locals, before any
\* partition has been backed up
Running(pos, a, h, d, v, pm, pl, c, f, i) ==
    /\ pc = pos
    /\ args = a
    /\ host = h
    /\ device = d
    /\ adbversion = v
    /\ partmap = pm
    /\ plan = pl
    /\ missing = {}
    /\ err = NoErr
    /\ cmds = c
    /\ fs = f
    /\ idx = i
    /\ bk = NoBk
    /\ mtab = <<>>
    /\ md5dev = NoMd5
    /\ shown = FALSE

\* the state main() starts in, given the command line, the host and the device
InitRun(a, h, d) ==
    Running("check_adb_version", a, h, d, None, <<>>, <<>>, <<>>, NoFs, 0)

\* parse_args: the defaults of every option
DefaultArgs ==
    [nandroid |-> FALSE, dry_run |-> FALSE, verify |-> TRUE, verbose |-> 0,
     force |-> FALSE, transport |-> None, media |-> FALSE, data_cache |-> FALSE,
     recovery |-> FALSE, cache |-> FALSE, userdata |-> TRUE, system |-> TRUE,
     boot |-> TRUE, extra |-> <<>>]

----------------------------------------------------------------------------
(* main, up to the backup loop *)

Exit(type, msg, names) ==
    /\ pc' = "exit"
    /\ err' = [type |-> type, msg |-> msg, names |-> names]

\* a handler that records the error and goes on with the next partition
Raise_continues(type, msg) ==
    /\ pc' = "loop"
    /\ err' = [type |-> type, msg |-> msg, names |-> {}]

Raise(type, msg) ==
    /\ pc' = "raised"
    /\ err' = [type |-> type, msg |-> msg, names |-> {}]

Cmd(c, part, opt) == [cmd |-> c, part |-> part, opt |-> opt]

\* any version that could be read is accepted
CheckAdbVersion_anyversion ==
    /\ pc = "check_adb_version"
    /\ IF host.adb.raises = "FileNotFoundError"
       THEN Exit("p.error", "could not call adb binary -- is it in your PATH?", {})
            /\ UNCHANGED adbversion
       ELSE IF host.adb.raises = "RuntimeError"
       THEN Exit("p.error", "could not determine ADB version", {})
            /\ UNCHANGED adbversion
       ELSE /\ adbversion' = host.adb.version
            /\ pc' = "sensible_transport"
            /\ UNCHANGED err
    /\ UNCHANGED <<args, host, device, partmap, plan, missing, cmds, fs, idx, bk, mtab, md5dev, shown>>

\* lines 61-75 (and AdbWrapper.get_version)
CheckAdbVersion ==
    /\ pc = "check_adb_version"
    /\ IF host.adb.raises = "FileNotFoundError"
       THEN Exit("p.error", "could not call adb binary -- is it in your PATH?", {})
            /\ UNCHANGED adbversion
       ELSE IF host.adb.raises = "RuntimeError"
       THEN Exit("p.error", "could not determine ADB version", {})
            /\ UNCHANGED adbversion
       ELSE IF TupleLess(host.adb.version, V_1_0_31)
       THEN Exit("p.error", "found ADB version, but version >= 1.0.31 is required", {})
            /\ UNCHANGED adbversion
       ELSE /\ adbversion' = host.adb.version
            /\ pc' = "sensible_transport"
            /\ UNCHANGED err
    /\ UNCHANGED <<args, host, device, partmap, plan, missing, cmds, fs, idx, bk, mtab, md5dev, shown>>

\* line 280
SensibleTransport ==
    /\ pc = "sensible_transport"
    /\ args' = [args EXCEPT !.transport = sensible_transport(@, adbversion, host.platform)]
    /\ pc' = "check_TWRP"
    /\ UNCHANGED <<host, device, adbversion, partmap, plan, missing, err, cmds, fs, idx, bk, mtab, md5dev, shown>>

\* lines 77-97; answer is what the user types at the prompt of line 91
CheckTWRP ==
    /\ pc = "check_TWRP"
    /\ cmds' = cmds \o <<Cmd("uname -r", "", ""), Cmd("twrp -v", "", "")>>
    /\ IF ~device.twrp /\ args.force
       THEN \E answer \in {"y", "n"} :
                IF answer # "y"
                THEN Exit("SystemExit", "", {})
                ELSE pc' = "build_partmap" /\ UNCHANGED err
       ELSE IF ~device.twrp
       THEN Exit("p.error", "Device is not in TWRP; please boot into TWRP recovery and retry.", {})
       ELSE pc' = "build_partmap" /\ UNCHANGED err
    /\ UNCHANGED <<args, host, device, adbversion, partmap, plan, missing, fs, idx, bk, mtab, md5dev, shown>>

\* the adb commands of one call of build_partmap
PartmapCmds(dev) ==
    <<Cmd("cat fstab", "", ""), Cmd("cat uevent", "", 0)>>
        \o [j \in 1..(2 * ReadNparts(dev).n) |->
               IF j % 2 = 1 THEN Cmd("cat uevent", "", (j + 1) \div 2)
               ELSE Cmd("cat size", "", j \div 2)]

\* line 284
BuildPartmap ==
    /\ pc = "build_partmap"
    /\ cmds' = cmds \o PartmapCmds(device)
    /\ IF build_partmap(device).raises # ""
       THEN /\ Raise(build_partmap(device).raises, "")
            /\ UNCHANGED partmap
       ELSE /\ partmap' = build_partmap(device).partmap
            /\ pc' = "plan_backup"
            /\ UNCHANGED err
    /\ UNCHANGED <<args, host, device, adbversion, plan, missing, fs, idx, bk, mtab, md5dev, shown>>

\* the plan's names gathered in args.extra itself
PlanBackup_inplace ==
    /\ pc = "plan_backup"
    /\ plan' = plan_backup(args)
    /\ args' = [args EXCEPT !.extra = OdictKeys(plan_backup(args))]
    /\ missing' = Range(OdictKeys(plan_backup(args))) \ Range(OdictKeys(partmap))
    /\ pc' = "check_missing"
    /\ UNCHANGED <<host, device, adbversion, partmap, err, cmds, fs, idx, bk, mtab, md5dev, shown>>

\* lines 285-286
PlanBackup ==
    /\ pc = "plan_backup"
    /\ plan' = plan_backup(args)
    /\ missing' = Range(OdictKeys(plan_backup(args))) \ Range(OdictKeys(partmap))
    /\ pc' = "check_missing"
    /\ UNCHANGED <<args, host, device, adbversion, partmap, err, cmds, fs, idx, bk, mtab, md5dev, shown>>

\* line 292: the names main takes for standard partitions
MainStandard == {"cache", "system", "data", "boot"}

CheckMissing_typos_pass ==
    /\ pc = "check_missing"
    /\ IF missing \cap MainStandard # {}
       THEN Exit("p.error", "Standard partitions were requested for backup, but not found in the partition map", missing)
       ELSE IF args.dry_run
       THEN Exit("p.exit", "", {})
       ELSE pc' = "create_backupdir" /\ UNCHANGED err
    /\ shown' = (args.dry_run \/ missing # {} \/ args.verbose > 0)
    /\ UNCHANGED <<args, host, device, adbversion, partmap, plan, missing, cmds, fs, idx, bk, mtab, md5dev>>

\* the dry-run exit of lines 297-298 left out
CheckMissing_nodryrun ==
    /\ pc = "check_missing"
    /\ IF missing \cap MainStandard # {}
       THEN Exit("p.error", "Standard partitions were requested for backup, but not found in the partition map", missing)
       ELSE IF missing # {}
       THEN Exit("p.error", "These non-standard partitions were requested for backup, but not found in the partition map", missing)
       ELSE pc' = "create_backupdir" /\ UNCHANGED err
    /\ shown' = (args.dry_run \/ missing # {} \/ args.verbose > 0)
    /\ UNCHANGED <<args, host, device, adbversion, partmap, plan, missing, cmds, fs, idx, bk, mtab, md5dev>>

\* lines 289-298; show_partmap_and_plan prints before any of the exits
CheckMissing ==
    /\ pc = "check_missing"
    /\ IF missing \cap MainStandard # {}
       THEN Exit("p.error", "Standard partitions were requested for backup, but not found in the partition map", missing)
       ELSE IF missing # {}
       THEN Exit("p.error", "These non-standard partitions were requested for backup, but not found in the partition map", missing)
       ELSE IF args.dry_run
       THEN Exit("p.exit", "", {})
       ELSE pc' = "create_backupdir" /\ UNCHANGED err
    /\ shown' = (args.dry_run \/ missing # {} \/ args.verbose > 0)
    /\ UNCHANGED <<args, host, device, adbversion, partmap, plan, missing, cmds, fs, idx, bk, mtab, md5dev>>

\* lines 301-303 (create_backupdir, os.chdir)
CreateBackupdir ==
    /\ pc = "create_backupdir"
    /\ fs' = [fs EXCEPT !.dir = TRUE]
    /\ idx' = 1
    /\ pc' = "loop"
    /\ UNCHANGED <<args, host, device, adbversion, partmap, plan, missing, err, cmds, bk, mtab, md5dev, shown>>

----------------------------------------------------------------------------
(* Streams, digests and base64 *)

\* the byte values the model's devices hold
ByteVals == {0, 255}

BlockSize == 65536

\* a changed byte
Flip(b) == 255 - b

\* the streams that differ from s in exactly one byte
OneByteChanged(s) == {[s EXCEPT ![i] = Flip(@)] : i \in 1..Len(s)}

\* hashlib.md5().update(block), md5 taken as collision free: the digest is
\* the number of the byte sequence folded in so far
Rank(b) == 1 + Cardinality({x \in ByteVals : x < b})

RECURSIVE Md5Update(_, _)
Md5Update(h, block) ==
    IF block = <<>> THEN h
    ELSE Md5Update(h * (Cardinality(ByteVals) + 1) + Rank(Head(block)), Tail(block))

\* md5sum of a whole stream
Md5(s) == Md5Update(0, s)

\* base64 text is a sequence of the values 0..63 of its characters; Pad is '='
Pad == 64

B64Quads == 1

RECURSIVE B64Enc(_)
\* what `| base64` makes of the stream, before line wrapping
B64Enc(s) ==
    IF s = <<>> THEN <<>>
    ELSE IF Len(s) = 1
    THEN <<s[1] \div 4, (s[1] % 4) * 16, Pad, Pad>>
    ELSE IF Len(s) = 2
    THEN <<s[1] \div 4, (s[1] % 4) * 16 + s[2] \div 16, (s[2] % 16) * 4, Pad>>
    ELSE <<s[1] \div 4, (s[1] % 4) * 16 + s[2] \div 16,
           (s[2] % 16) * 4 + s[3] \div 64, s[3] % 64>> \o B64Enc(SubSeq(s, 4, Len(s)))

RECURSIVE Wrap(_, _)
\* text wrapped into lines of at most n characters
Wrap(t, n) ==
    IF Len(t) <= n THEN (IF t = <<>> THEN <<>> ELSE <<t>>)
    ELSE <<SubSeq(t, 1, n)>> \o Wrap(SubSeq(t, n + 1, Len(t)), n)

RECURSIVE Join(_)
\* b''.join(lines)
Join(lines) == IF lines = <<>> THEN <<>> ELSE Head(lines) \o Join(Tail(lines))

B64Error == <<-1>>

RECURSIVE b64dec(_)
\* base64.standard_b64decode; B64Error stands for raising binascii.Error
b64dec(t) ==
    IF t = <<>> THEN <<>>
    ELSE IF Len(t) < 4 THEN B64Error
    ELSE LET rest == b64dec(SubSeq(t, 5, Len(t)))
             here == IF t[3] = Pad THEN <<t[1] * 4 + t[2] \div 16>>
                     ELSE IF t[4] = Pad
                     THEN <<t[1] * 4 + t[2] \div 16, (t[2] % 16) * 16 + t[3] \div 4>>
                     ELSE <<t[1] * 4 + t[2] \div 16, (t[2] % 16) * 16 + t[3] \div 4,
                            (t[3] % 4) * 64 + t[4]>>
         IN  IF rest = B64Error THEN B64Error ELSE here \o rest

\* what the remote pipeline puts on the transport for payload q
OnWire(transport, q) ==
    IF transport = "pipe_b64" THEN Wrap(B64Enc(q), 4 * B64Quads) ELSE q

----------------------------------------------------------------------------
(* The device's mount table *)

FsTypes == {"ext4", "vfat"}

MEntry(dev, node, type, ro) == [dev |-> dev, node |-> node, type |-> type, ro |-> ro]

DevPath(pi) == "/dev/block/" \o pi.devname

\* line 15 / line 32: a mount line that concerns dev or node
Matches(e, dev, node) == e.dev = dev \/ e.node = node

\* the mount states the partition may be found in
PriorMounts(dev, node) ==
    IF node = None
    THEN {<<>>,
          <<MEntry(dev, "/mnt/a", "ext4", FALSE)>>,
          <<MEntry(dev, "/mnt/a", "ext4", FALSE), MEntry(dev, "/mnt/b", "ext4", FALSE)>>}
    ELSE {<<>>,
          <<MEntry(dev, node, "ext4", TRUE)>>,
          <<MEntry(dev, node, "ext4", FALSE)>>,
          <<MEntry(dev, node, "vfat", TRUE)>>,
          <<MEntry("tmpfs", node, "vfat", FALSE)>>,
          <<MEntry(dev, node, "ext4", FALSE), MEntry(dev, "/mnt/a", "ext4", FALSE)>>}

\* the table without its last line that satisfies P
RemoveLast(t, P(_)) ==
    LET hits == {i \in 1..Len(t) : P(t[i])}
        last == CHOOSE i \in hits : \A j \in hits : j <= i
    IN  IF hits = {} THEN t
        ELSE SubSeq(t, 1, last - 1) \o SubSeq(t, last + 1, Len(t))

\* lines 7-16 of really_mount: the type of the first line that matches
FirstType(t, dev, node) ==
    LET hits == {i \in 1..Len(t) : Matches(t[i], dev, node)}
    IN  IF hits = {} THEN None
        ELSE t[CHOOSE i \in hits : \A j \in hits : i <= j].type

----------------------------------------------------------------------------
(* main's loop and backup_partition *)

setup == <<args, host, device, adbversion, partmap, plan, missing, shown>>

\* back in main after backup_partition returned: the next pass of line 306
Return ==
    /\ idx' = idx + 1
    /\ pc' = "loop"

\* the plan walked from its last entry
Loop_reversed ==
    /\ pc = "loop"
    /\ IF idx > Len(plan)
       THEN /\ pc' = "done"
            /\ UNCHANGED <<bk, mtab>>
       ELSE LET e == plan[Len(plan) + 1 - idx]
                pi == OdictGet(partmap, e.key)
            IN  /\ bk' = [NoBk EXCEPT !.key = e.key, !.pi = pi,
                                      !.bp = e.val, !.round = 1]
                /\ mtab' \in PriorMounts(DevPath(pi), pi.mountpoint)
                /\ pc' = "backup_partition"
    /\ UNCHANGED <<setup, err, cmds, fs, idx, md5dev>>

\* lines 306-307 and 309; the partition's mount state is met as it is
Loop ==
    /\ pc = "loop"
    /\ IF idx > Len(plan)
       THEN /\ pc' = "done"
            /\ UNCHANGED <<bk, mtab>>
       ELSE LET pi == OdictGet(partmap, plan[idx].key)
            IN  /\ bk' = [NoBk EXCEPT !.key = plan[idx].key, !.pi = pi,
                                      !.bp = plan[idx].val, !.round = 1]
                /\ mtab' \in PriorMounts(DevPath(pi), pi.mountpoint)
                /\ pc' = "backup_partition"
    /\ UNCHANGED <<setup, err, cmds, fs, idx, md5dev>>

\* lines 196-199 and 207
BpBegin ==
    /\ pc = "backup_partition"
    /\ IF args.verify
       THEN /\ cmds' = Append(cmds, Cmd("mknod md5in", bk.key, ""))
            /\ md5dev' = [fifo |-> TRUE, outfile |-> FALSE, out |-> <<>>, running |-> FALSE]
       ELSE UNCHANGED <<cmds, md5dev>>
    /\ pc' = IF bk.bp.taropts # None /\ bk.bp.taropts # "" THEN "mount" ELSE "umount_dev"
    /\ UNCHANGED <<setup, err, fs, idx, bk, mtab>>

\* lines 4-6 of really_mount: one pass of the loop over ('ro', 'remount,ro');
\* ok is whether the device printed the success marker
MountTry ==
    /\ pc = "mount"
    /\ LET dev == DevPath(bk.pi)
           node == bk.pi.mountpoint
           opts == IF bk.round = 1 THEN "ro" ELSE "remount,ro"
           here == {i \in 1..Len(mtab) : mtab[i].dev = dev /\ mtab[i].node = node}
       IN  /\ cmds' = Append(cmds, Cmd("mount", bk.key, opts))
           /\ \E ok \in BOOLEAN :
                /\ IF ~ok THEN UNCHANGED mtab
                   ELSE IF bk.round = 1
                   THEN /\ here = {}
                        /\ \E t \in FsTypes : mtab' = Append(mtab, MEntry(dev, node, t, TRUE))
                   ELSE /\ here # {}
                        /\ mtab' = [i \in 1..Len(mtab) |->
                                       IF i \in here THEN [mtab[i] EXCEPT !.ro = TRUE]
                                       ELSE mtab[i]]
                /\ IF ok \/ bk.round = 2
                   THEN pc' = "mount_read" /\ UNCHANGED bk
                   ELSE pc' = "mount" /\ bk' = [bk EXCEPT !.round = 2]
    /\ UNCHANGED <<setup, err, fs, idx, md5dev>>

\* any mount entry accepted, whatever its type
MountRead_notype ==
    /\ pc = "mount_read"
    /\ cmds' = Append(cmds, Cmd("mount table", bk.key, ""))
    /\ LET fstype == FirstType(mtab, DevPath(bk.pi), bk.pi.mountpoint)
       IN  IF fstype = None
           THEN Raise("RuntimeError", "could not mount")
           ELSE pc' = "transport" /\ UNCHANGED err
    /\ UNCHANGED <<setup, fs, idx, bk, mtab, md5dev>>

\* lines 7-16 of really_mount and lines 202-206 of backup_partition
MountRead ==
    /\ pc = "mount_read"
    /\ cmds' = Append(cmds, Cmd("mount table", bk.key, ""))
    /\ LET fstype == FirstType(mtab, DevPath(bk.pi), bk.pi.mountpoint)
       IN  IF fstype = None
           THEN Raise("RuntimeError", "could not mount")
           ELSE IF fstype # bk.pi.fstype
           THEN Raise("RuntimeError", "expected filesystem, but found")
           ELSE pc' = "transport" /\ UNCHANGED err
    /\ UNCHANGED <<setup, fs, idx, bk, mtab, md5dev>>

\* line 20 of really_umount: umount of the device node
UmountDev ==
    /\ pc = "umount_dev"
    /\ cmds' = Append(cmds, Cmd("umount dev", bk.key, ""))
    /\ \E ok \in BOOLEAN :
         IF ok
         THEN /\ \E i \in 1..Len(mtab) : mtab[i].dev = DevPath(bk.pi)
              /\ mtab' = RemoveLast(mtab, LAMBDA e : e.dev = DevPath(bk.pi))
              /\ pc' = "umount_read"
         ELSE /\ pc' = "umount_node"
              /\ UNCHANGED mtab
    /\ UNCHANGED <<setup, err, fs, idx, bk, md5dev>>

\* line 22 of really_umount: umount of the mountpoint, and the loop's step
UmountNode ==
    /\ pc = "umount_node"
    /\ cmds' = Append(cmds, Cmd("umount node", bk.key, ""))
    /\ \E ok \in BOOLEAN :
         IF ok
         THEN /\ \E i \in 1..Len(mtab) : mtab[i].node = bk.pi.mountpoint
              /\ mtab' = RemoveLast(mtab, LAMBDA e : e.node = bk.pi.mountpoint)
              /\ pc' = "umount_read"
              /\ UNCHANGED bk
         ELSE /\ UNCHANGED mtab
              /\ IF bk.round < 4
                 THEN pc' = "umount_dev" /\ bk' = [bk EXCEPT !.round = @ + 1]
                 ELSE pc' = "umount_read" /\ UNCHANGED bk
    /\ UNCHANGED <<setup, err, fs, idx, md5dev>>

\* a variant that goes on whatever the mount table holds
UmountRead_unchecked ==
    /\ pc = "umount_read"
    /\ cmds' = Append(cmds, Cmd("mount table", bk.key, ""))
    /\ pc' = "transport"
    /\ UNCHANGED <<setup, err, fs, idx, bk, mtab, md5dev>>

\* lines 24-34 of really_umount and lines 209-211 of backup_partition
UmountRead ==
    /\ pc = "umount_read"
    /\ cmds' = Append(cmds, Cmd("mount table", bk.key, ""))
    /\ IF \E i \in 1..Len(mtab) : Matches(mtab[i], DevPath(bk.pi), bk.pi.mountpoint)
       THEN Raise("RuntimeError", "could not unmount")
       ELSE pc' = "transport" /\ UNCHANGED err
    /\ UNCHANGED <<setup, fs, idx, bk, mtab, md5dev>>

\* the remote pipeline starts: the transport carries the partition's stream,
\* as it is or with one byte changed; md5sum starts with an empty md5out
Started(b) ==
    /\ \E q \in {device.content[b.pi.devname]} \cup OneByteChanged(device.content[b.pi.devname]) :
         bk' = [b EXCEPT !.child = "running", !.payload = q,
                         !.wire = OnWire(args.transport, q)]
    /\ md5dev' = IF args.verify
                 THEN [fifo |-> TRUE, outfile |-> TRUE, out |-> <<>>, running |-> TRUE]
                 ELSE md5dev

\* lines 213-232: the three pipe transports
SpawnPipe ==
    /\ pc = "transport"
    /\ args.transport \in {"pipe_bin", "pipe_b64", "pipe_xo"}
    /\ cmds' = Append(cmds, Cmd("pipe_out", bk.key, args.transport))
    /\ Started(bk)
    /\ pc' = "open"
    /\ UNCHANGED <<setup, err, fs, idx, mtab>>

\* lines 233-236 and really_forward: the first candidate port; adb_stuff
\* imports no time, so the sleep of line 40 raises NameError
Forward ==
    /\ pc = "transport"
    /\ args.transport \notin {"pipe_bin", "pipe_b64", "pipe_xo"}
    /\ cmds' = Append(cmds, Cmd("forward", bk.key, 5600 + bk.pi.partn))
    /\ \E ok \in BOOLEAN :
         IF ok
         THEN /\ bk' = [bk EXCEPT !.port = 5600 + bk.pi.partn]
              /\ pc' = "tcp_spawn"
              /\ UNCHANGED err
         ELSE /\ Raise("NameError", "name 'time' is not defined")
              /\ UNCHANGED bk
    /\ UNCHANGED <<setup, fs, idx, mtab, md5dev>>

\* lines 237-243
TcpSpawn ==
    /\ pc = "tcp_spawn"
    /\ cmds' = Append(cmds, Cmd("pipe_out", bk.key, "tcp"))
    /\ \E connected \in BOOLEAN :
         IF connected
         THEN /\ Started([bk EXCEPT !.sock = "open"])
              /\ pc' = "open"
              /\ UNCHANGED err
         ELSE /\ Started(bk)
              /\ Raise("ConnectionRefusedError", "")
    /\ UNCHANGED <<setup, fs, idx, mtab>>

\* open(fn, mode): the file is created or emptied
Create(f, fn, data) ==
    [f EXCEPT !.files = OdictSet(@, fn, data), !.log = Append(@, fn)]

\* line 248
OpenOut ==
    /\ pc = "open"
    /\ fs' = Create(fs, bk.bp.fn, <<>>)
    /\ bk' = [bk EXCEPT !.out = "open"]
    /\ pc' = "stream"
    /\ UNCHANGED <<setup, err, cmds, idx, mtab, md5dev>>

\* out.write(block)
Written(f, fn, block) ==
    [f EXCEPT !.files = OdictSet(@, fn, OdictGet(@, fn) \o block)]

\* lines 249-253: one pass of the loop; n is how much the read returns
ReadBlock ==
    /\ pc = "stream"
    /\ bk.wire # <<>>
    /\ \E n \in 1..Min(Len(bk.wire), BlockSize) :
         LET got == SubSeq(bk.wire, 1, n)
             block == IF args.transport = "pipe_b64" THEN b64dec(Join(got)) ELSE got
             rest == SubSeq(bk.wire, n + 1, Len(bk.wire))
         IN  IF block = B64Error
             THEN /\ Raise("binascii.Error", "")
                  /\ bk' = [bk EXCEPT !.wire = rest, !.out = "closed"]
                  /\ UNCHANGED fs
             ELSE /\ fs' = Written(fs, bk.bp.fn, block)
                  /\ bk' = [bk EXCEPT !.wire = rest,
                                      !.localmd5 = IF args.verify THEN Md5Update(@, block) ELSE @]
                  /\ UNCHANGED <<pc, err>>
    /\ UNCHANGED <<setup, cmds, idx, mtab, md5dev>>

\* lines 254-256: the read returned b'', the output file is closed
EndOfStream ==
    /\ pc = "stream"
    /\ bk.wire = <<>>
    /\ bk' = [bk EXCEPT !.out = "closed"]
    /\ pc' = IF args.verify THEN "verify_read" ELSE "wait"
    /\ UNCHANGED <<setup, err, cmds, fs, idx, mtab, md5dev>>

\* the device's md5sum, started in the background by line 214, reaches the
\* end of its input (tee has written the last byte) and writes md5out
Md5sumFinish ==
    /\ pc \in {"stream", "verify_read"}
    /\ md5dev.running
    /\ bk.wire = <<>>
    /\ md5dev' = [md5dev EXCEPT !.out = <<Md5(device.content[bk.pi.devname]), "/tmp/md5in">>,
                                !.running = FALSE]
    /\ UNCHANGED <<pc, setup, err, cmds, fs, idx, bk, mtab>>

\* line 259
VerifyRead ==
    /\ pc = "verify_read"
    /\ cmds' = Append(cmds, Cmd("cat md5out", bk.key, ""))
    /\ IF md5dev.out = <<>>
       THEN /\ Raise("IndexError", "list index out of range")
            /\ UNCHANGED <<bk, md5dev>>
       ELSE /\ bk' = [bk EXCEPT !.devicemd5 = md5dev.out[1]]
            /\ md5dev' = NoMd5
            /\ pc' = "verify_compare"
            /\ UNCHANGED err
    /\ UNCHANGED <<setup, fs, idx, mtab>>

\* the sidecar written without the comparison
VerifyCompare_unchecked ==
    /\ pc = "verify_compare"
    /\ fs' = Create(fs, bk.bp.fn \o ".md5", <<bk.localmd5, "*" \o bk.bp.fn>>)
    /\ pc' = "wait"
    /\ UNCHANGED err
    /\ UNCHANGED <<setup, cmds, idx, bk, mtab, md5dev>>

\* lines 260-264
VerifyCompare ==
    /\ pc = "verify_compare"
    /\ IF bk.devicemd5 # bk.localmd5
       THEN /\ Raise("RuntimeError", "md5sum mismatch")
            /\ UNCHANGED fs
       ELSE /\ fs' = Create(fs, bk.bp.fn \o ".md5", <<bk.localmd5, "*" \o bk.bp.fn>>)
            /\ pc' = "wait"
            /\ UNCHANGED err
    /\ UNCHANGED <<setup, cmds, idx, bk, mtab, md5dev>>

\* lines 266-267
ChildWait ==
    /\ pc = "wait"
    /\ bk' = [bk EXCEPT !.child = "waited"]
    /\ IF args.transport = "tcp"
       THEN pc' = "unforward" /\ UNCHANGED idx
       ELSE Return
    /\ UNCHANGED <<setup, err, cmds, fs, mtab, md5dev>>

\* a variant that goes on to the next partition when the release failed
Unforward_ignored ==
    /\ pc = "unforward"
    /\ cmds' = Append(cmds, Cmd("forward --remove", bk.key, bk.port))
    /\ \E ok \in BOOLEAN :
         bk' = [bk EXCEPT !.sock = "closed", !.port = IF ok THEN 0 ELSE @]
    /\ Return
    /\ UNCHANGED err
    /\ UNCHANGED <<setup, fs, mtab, md5dev>>

\* lines 268-270 and really_unforward: the first try; adb_stuff imports no
\* time, so the sleep of line 46 raises NameError
Unforward ==
    /\ pc = "unforward"
    /\ cmds' = Append(cmds, Cmd("forward --remove", bk.key, bk.port))
    /\ \E ok \in BOOLEAN :
         IF ok
         THEN /\ bk' = [bk EXCEPT !.sock = "closed", !.port = 0]
              /\ Return
              /\ UNCHANGED err
         ELSE /\ bk' = [bk EXCEPT !.sock = "closed"]
              /\ Raise("NameError", "name 'time' is not defined")
              /\ UNCHANGED idx
    /\ UNCHANGED <<setup, fs, mtab, md5dev>>

----------------------------------------------------------------------------
(* The devices, hosts and command lines of the model *)

\* AdbWrapper.get_version: the exception it raises, or the version it returns
AdbFails(e) == [raises |-> e, version |-> <<>>]

AdbGives(v) == [raises |-> "", version |-> v]

DevName(i) ==
    CASE i = 1 -> "mmcblk0p1"
      [] i = 2 -> "mmcblk0p2"
      [] i = 3 -> "mmcblk0p3"
      [] i = 4 -> "mmcblk0p4"
      [] OTHER -> "mmcblk0p5"

\* the fstab line of a partition name, if it has one
FstabOf(name) ==
    CASE name \in {"system", "SYSTEM", "APP"} -> [mountpoint |-> "/system", fstype |-> "ext4"]
      [] name \in {"userdata", "USERDATA"} -> [mountpoint |-> "/data", fstype |-> "ext4"]
      [] name \in {"cache", "CACHE"} -> [mountpoint |-> "/cache", fstype |-> "ext4"]
      [] OTHER -> [mountpoint |-> None, fstype |-> None]

\* what each partition of a device streams when it is read
ContentOf(i) ==
    CASE i = 1 -> <<0>>
      [] i = 2 -> <<0, 255>>
      [] i = 3 -> <<255, 255>>
      [] OTHER -> <<255>>

\* the base record of a device with n partitions
BaseOf(n) == <<<<"DEVTYPE", "disk">>, <<"NPARTS", Numerals[n + 1]>>>>

\* a device with this base record, whose partitions 1..Len(names) have these
\* names and, in fstab, these mountpoints
Device(base, names, mounts, twrp) ==
    [twrp |-> twrp,
     base |-> base,
     parts |-> [i \in 1..Len(names) |->
                 [PARTNAME |-> names[i], DEVNAME |-> DevName(i), PARTN |-> i, size |-> 2048]],
     fstab |-> SelectSeq([i \in 1..Len(names) |->
                            [key |-> "/dev/block/" \o DevName(i),
                             val |-> [mountpoint |-> mounts[i],
                                      fstype |-> IF mounts[i] = None THEN None ELSE "ext4"]]],
                         LAMBDA e : e.val.mountpoint # None),
     content |-> [n \in {DevName(i) : i \in 1..Len(names)} |->
                    ContentOf(CHOOSE i \in 1..Len(names) : DevName(i) = n)]]

\* a well-formed device whose partitions are mounted where their names say
MakeDevice(names, twrp) ==
    Device(BaseOf(Len(names)), names,
           [i \in 1..Len(names) |-> FstabOf(names[i]).mountpoint], twrp)

FullDevice == MakeDevice(<<"boot", "system", "userdata", "modem">>, TRUE)

\* runs that exercise the checks main makes before the backup loop
StartupConfigs ==
    {[a |-> [DefaultArgs EXCEPT !.dry_run = dr, !.force = f, !.extra = x,
                                !.userdata = u, !.recovery = r],
      h |-> [platform |-> "linux", adb |-> v],
      d |-> MakeDevice(names, twrp)] :
        dr \in BOOLEAN, f \in BOOLEAN, u \in BOOLEAN, r \in BOOLEAN, twrp \in BOOLEAN,
        x \in {<<>>, <<"modem">>, <<"data">>, <<"sbl1">>},
        v \in {AdbFails("FileNotFoundError"), AdbFails("RuntimeError"),
               AdbGives(<<1, 0, 30>>), AdbGives(<<1, 0, 32>>)},
        names \in {<<"boot", "system", "userdata", "modem">>,
                   <<"boot", "system", "modem">>,
                   <<"system", "userdata", "modem">>,
                   <<"boot", "system", "userdata">>}}

\* runs that exercise the backup loop with every transport
BackupConfigs ==
    {[a |-> [DefaultArgs EXCEPT !.nandroid = n, !.verify = v, !.transport = t,
                                !.userdata = FALSE],
      h |-> h,
      d |-> FullDevice] :
        n \in BOOLEAN, v \in BOOLEAN, t \in {None, "pipe_b64", "pipe_bin"},
        h \in {[platform |-> "linux", adb |-> AdbGives(<<1, 0, 32>>)],
               [platform |-> "linux", adb |-> AdbGives(<<1, 0, 31>>)],
               [platform |-> "win32", adb |-> AdbGives(<<1, 0, 31>>)]}}

\* runs on devices whose base record lacks NPARTS, has a non-numeric one, has
\* a line without '=', or is well formed around an empty line
BaseConfigs ==
    {[a |-> [DefaultArgs EXCEPT !.dry_run = dr],
      h |-> [platform |-> "linux", adb |-> AdbGives(<<1, 0, 32>>)],
      d |-> Device(b, <<"boot", "system", "userdata", "modem">>,
                   <<None, "/system", "/data", None>>, TRUE)] :
        dr \in BOOLEAN,
        b \in {<<<<"DEVTYPE", "disk">>>>,
               <<<<"NPARTS", "x">>>>,
               <<<<"NPARTS", "">>>>,
               <<<<"garbage">>, <<"NPARTS", "4">>>>,
               <<EmptyLine, <<"NPARTS", "4">>>>}}

Init == \E c \in StartupConfigs \cup BackupConfigs \cup BaseConfigs : InitRun(c.a, c.h, c.d)

Next ==
    \/ CheckAdbVersion
    \/ SensibleTransport
    \/ CheckTWRP
    \/ BuildPartmap
    \/ PlanBackup
    \/ CheckMissing
    \/ CreateBackupdir
    \/ Loop
    \/ BpBegin
    \/ MountTry
    \/ MountRead
    \/ UmountDev
    \/ UmountNode
    \/ UmountRead
    \/ SpawnPipe
    \/ Forward
    \/ TcpSpawn
    \/ OpenOut
    \/ ReadBlock
    \/ EndOfStream
    \/ Md5sumFinish
    \/ VerifyRead
    \/ VerifyCompare
    \/ ChildWait
    \/ Unforward

Spec == Init /\ [][Next]_vars

----------------------------------------------------------------------------
(* sensible_transport over every request, bridge version and host platform *)

Versions == UNION {[1..k -> {0, 1, 31, 32, 33}] : k \in 1..MaxVerLen}

Platforms == {"linux", "linux2", "win32", "darwin"}

\* main at line 280
InitTransport ==
    \E t \in adbxp \cup {None}, v \in Versions, p \in Platforms :
        Running("sensible_transport", [DefaultArgs EXCEPT !.transport = t],
                [platform |-> p, adb |-> AdbGives(v)], FullDevice, v, <<>>, <<>>, <<>>,
                NoFs, 0)

SpecTransport == InitTransport /\ [][SensibleTransport]_vars

----------------------------------------------------------------------------
(* plan_backup over every selection *)

ExtraNames == {"modem", "boot", "userdata"}

Selections ==
    {[DefaultArgs EXCEPT !.nandroid = n, !.boot = b, !.recovery = r, !.system = sy,
                         !.userdata = u, !.cache = c, !.media = m, !.data_cache = dc,
                         !.extra = x, !.transport = "pipe_xo"] :
        n \in BOOLEAN, b \in BOOLEAN, r \in BOOLEAN, sy \in BOOLEAN, u \in BOOLEAN,
        c \in BOOLEAN, m \in BOOLEAN, dc \in BOOLEAN, x \in SeqsUpTo(ExtraNames, MaxExtra)}

\* main at line 285
InitPlan ==
    \E a \in Selections :
        Running("plan_backup", a, [platform |-> "linux", adb |-> AdbGives(V_1_0_32)],
                FullDevice, V_1_0_32, build_partmap(FullDevice).partmap, <<>>,
                <<Cmd("uname -r", "", ""), Cmd("twrp -v", "", "")>> \o PartmapCmds(FullDevice),
                NoFs, 0)

SpecPlan == InitPlan /\ [][PlanBackup]_vars

----------------------------------------------------------------------------
(* build_partmap over every small device and base record *)

PartNames == {"system", "userdata", "cache", "APP"}

MountPoints == {None, "/system", "/data", "/cache"}

\* the lines a base record of a device with n partitions is made of
Lines(n) ==
    {EmptyLine, <<"garbage">>, <<"DEVTYPE", "disk">>, <<"DEVPATH", "a", "b">>,
     <<"NPARTS", "x">>, <<"NPARTS", Numerals[n + 1]>>}

\* well-formed devices of every naming and mounting
PartmapDevices ==
    UNION {{Device(BaseOf(k), ns, ms, TRUE) :
                ns \in [1..k -> PartNames], ms \in [1..k -> MountPoints]} :
           k \in 0..MaxParts}

\* one device under every base record
BaseDevices ==
    {Device(b, <<"boot", "system">>, <<None, "/system">>, TRUE) :
        b \in SeqsUpTo(Lines(2), MaxLines)}

\* main at line 284
InitPartmap ==
    \E d \in PartmapDevices \cup BaseDevices :
        Running("build_partmap", DefaultArgs,
                [platform |-> "linux", adb |-> AdbGives(V_1_0_32)], d, V_1_0_32,
                <<>>, <<>>, <<Cmd("uname -r", "", ""), Cmd("twrp -v", "", "")>>, NoFs, 0)

SpecPartmap == InitPartmap /\ [][BuildPartmap]_vars

----------------------------------------------------------------------------
(* backup_partition of one raw image, over every stream and transport *)

Streams == SeqsUpTo(ByteVals, MaxLen)

\* a host on which sensible_transport lets transport t stand
HostFor(t) ==
    IF t \in {"pipe_xo", "pipe_b64"}
    THEN [platform |-> "linux", adb |-> AdbGives(V_1_0_32)]
    ELSE [platform |-> "win32", adb |-> AdbGives(V_1_0_31)]

\* main at line 306, about to back up boot as a raw image
InitStream ==
    \E s \in Streams, t \in adbxp, v \in BOOLEAN :
        LET a == [DefaultArgs EXCEPT !.nandroid = TRUE, !.system = FALSE, !.userdata = FALSE,
                                     !.verify = v, !.transport = t]
            d == [FullDevice EXCEPT !.content["mmcblk0p1"] = s]
        IN  Running("loop", a, HostFor(t), d, HostFor(t).adb.version, build_partmap(d).partmap,
                    plan_backup(a),
                    <<Cmd("uname -r", "", ""), Cmd("twrp -v", "", "")>> \o PartmapCmds(d),
                    [NoFs EXCEPT !.dir = TRUE], 1)

\* the actions a raw-image backup can take
NextStream ==
    \/ Loop
    \/ BpBegin
    \/ UmountDev
    \/ UmountNode
    \/ UmountRead
    \/ SpawnPipe
    \/ Forward
    \/ TcpSpawn
    \/ OpenOut
    \/ ReadBlock
    \/ EndOfStream
    \/ Md5sumFinish
    \/ VerifyRead
    \/ VerifyCompare
    \/ ChildWait
    \/ Unforward

SpecStream == InitStream /\ [][NextStream]_vars

----------------------------------------------------------------------------
(* Claims *)

\* main has compared the plan with the partition map
Planned == pc \notin {"check_adb_version", "sensible_transport", "check_TWRP",
                      "build_partmap", "plan_backup"}

\* the keys of the plan that the partition map lacks
Absent == {plan[i].key : i \in 1..Len(plan)} \ {partmap[i].key : i \in 1..Len(partmap)}

\* the adb commands that mount, unmount, forward a port or start a transfer
Touching == {"mknod md5in", "mount", "umount dev", "umount node", "forward",
             "forward --remove", "pipe_out", "cat md5out"}

Touched == \E i \in 1..Len(cmds) : cmds[i].cmd \in Touching

\* C1: when a key of the plan is absent from the partition map, the run goes
\* no further than the check of lines 292-295, which ends it with an error
\* naming exactly the absent keys; the output directory is never created and
\* no mount, unmount, port-forward or transfer command is issued
C1_MissingAborts ==
    Planned /\ Absent # {} =>
        /\ pc \in {"check_missing", "exit"}
        /\ ~fs.dir /\ fs.files = <<>> /\ fs.log = <<>>
        /\ ~Touched
        /\ pc = "exit" => err.type = "p.error" /\ err.names = Absent

\* C1 witness: the run has ended on two absent partitions, one of them an extra
C1_Witness ==
    /\ pc = "exit"
    /\ err.type = "p.error"
    /\ err.names = {"sbl1", "recovery"}
    /\ Absent = {"sbl1", "recovery"}

\* C7: the error for absent partitions is the 'Standard partitions' one
\* exactly when boot, recovery, system, userdata or cache is among them
C7_StandardVsCustom ==
    pc = "exit" /\ err.type = "p.error" /\ err.names # {} =>
        (err.msg = "Standard partitions were requested for backup, but not found in the partition map"
            <=> err.names \cap {"boot", "recovery", "system", "userdata", "cache"} # {})

HasFile(fn) == \E i \in 1..Len(fs.files) : fs.files[i].key = fn

File(fn) == fs.files[CHOOSE i \in 1..Len(fs.files) : fs.files[i].key = fn].val

IsPrefix(a, b) == Len(a) <= Len(b) /\ a = SubSeq(b, 1, Len(a))

\* the comparison of line 261 has been made for the partition in hand
Compared == bk.devicemd5 # -1 /\ pc # "verify_compare"

\* a run that has ended takes no further step
Ended == pc \in {"raised", "exit", "done"}

\* C2: with verify on, the sidecar <fn>.md5 exists exactly when the host
\* digest, folded over the bytes written, equals the digest read back from
\* the device, and then holds '<hexdigest> *<fn>'; on a mismatch the run
\* ends with the md5sum mismatch error, the output file kept and no sidecar
C2_SidecarIffDigestsAgree ==
    /\ [](bk.key # "" /\ args.verify =>
            LET fn == bk.bp.fn
                side == bk.bp.fn \o ".md5"
            IN  /\ HasFile(side) =>
                      /\ Compared
                      /\ bk.devicemd5 = bk.localmd5
                      /\ File(side) = <<bk.localmd5, "*" \o fn>>
                /\ HasFile(fn) => bk.localmd5 = Md5(File(fn))
                /\ Compared /\ bk.devicemd5 = bk.localmd5 => HasFile(side)
                /\ Compared /\ bk.devicemd5 # bk.localmd5 =>
                      /\ pc = "raised"
                      /\ err.type = "RuntimeError" /\ err.msg = "md5sum mismatch"
                      /\ HasFile(fn)
                      /\ ~HasFile(side))
    /\ [][~Ended]_vars

\* C2 witness: a mismatch has ended the run, the output file is there
C2_Witness ==
    /\ pc = "raised"
    /\ err.msg = "md5sum mismatch"
    /\ bk.devicemd5 # bk.localmd5
    /\ HasFile(bk.bp.fn)
    /\ Len(File(bk.bp.fn)) = 2
    /\ ~HasFile(bk.bp.fn \o ".md5")

\* C3: whatever the transport and the blocks the stream arrives in, the
\* output file receives the delivered bytes in order and, at end of stream,
\* all of them; the host digest is that of the bytes written; an unchanged
\* stream gives the partition's bytes and the device's digest, so the
\* comparison succeeds; a stream with one byte changed never gets a sidecar
\* and, once received to its end, the backup ends in the mismatch error and
\* in no other way
C3_StreamRoundTrip ==
    bk.key # "" /\ bk.child # "none" =>
        LET fn == bk.bp.fn
            side == bk.bp.fn \o ".md5"
            content == device.content[bk.pi.devname]
        IN  /\ HasFile(fn) => IsPrefix(File(fn), bk.payload)
            /\ bk.out = "closed" => File(fn) = bk.payload
            /\ args.verify /\ HasFile(fn) => bk.localmd5 = Md5(File(fn))
            /\ md5dev.out # <<>> => md5dev.out[1] = Md5(content)
            /\ bk.payload = content /\ bk.out = "closed" =>
                  /\ File(fn) = content
                  /\ Len(File(fn)) = Len(content)
                  /\ args.verify => bk.localmd5 = Md5(content)
                  /\ Compared => bk.devicemd5 = bk.localmd5 /\ HasFile(side)
                  /\ err.msg # "md5sum mismatch"
            /\ bk.payload # content /\ args.verify =>
                  /\ ~HasFile(side)
                  /\ bk.child # "waited"
                  /\ pc \notin {"wait", "unforward", "loop", "done"}
                  /\ Compared => pc = "raised" /\ err.msg = "md5sum mismatch"
                  /\ bk.out = "closed" /\ Ended =>
                        pc = "raised" /\ err.msg = "md5sum mismatch"

RECURSIVE FilesOf(_, _)
\* the files a plan produces, in order
FilesOf(pl, verify) ==
    IF pl = <<>> THEN <<>>
    ELSE <<Head(pl).val.fn>>
             \o (IF verify THEN <<Head(pl).val.fn \o ".md5">> ELSE <<>>)
             \o FilesOf(Tail(pl), verify)

\* the place of a key in the plan
Place(k) == CHOOSE i \in 1..Len(plan) : plan[i].key = k

\* the commands issued for some partition
PartCmds == SelectSeq(cmds, LAMBDA c : c.part # "")

\* the commands just issued
NewCmds == SubSeq(cmds', Len(cmds) + 1, Len(cmds'))

\* C4: partitions are backed up in plan order without interleaving: files
\* appear in the order of the plan, each output file before its sidecar;
\* commands for a partition are issued only while it is the one in hand, in
\* plan order; the next partition is taken in hand only when the output
\* file of the one before is closed, its sidecar written (verify on) and its
\* remote process waited on; {boot, system} as raw images with verify on
\* ends with boot.tar.gz, boot.tar.gz.md5, system.tar.gz, system.tar.gz.md5
C4_PlanOrder ==
    /\ [](/\ IsPrefix(fs.log, FilesOf(plan, args.verify))
          /\ LET pcs == PartCmds
             IN  /\ \A i \in 1..(Len(pcs) - 1) :
                       Place(pcs[i].part) <= Place(pcs[i + 1].part)
                 /\ pcs # <<>> => Place(pcs[Len(pcs)].part) <= idx
          /\ pc = "done" /\ args.nandroid /\ args.verify
                /\ OdictKeys(plan) = <<"boot", "system">> =>
                fs.log = <<"boot.tar.gz", "boot.tar.gz.md5",
                           "system.tar.gz", "system.tar.gz.md5">>)
    /\ [][/\ \A i \in 1..Len(NewCmds) :
                NewCmds[i].part # "" => NewCmds[i].part = bk.key /\ bk'.key = bk.key
          /\ bk.key # "" /\ bk'.key # bk.key =>
                /\ bk'.key = plan[idx].key
                /\ bk.key = plan[idx - 1].key
                /\ bk.out = "closed"
                /\ bk.child = "waited"
                /\ args.verify => HasFile(bk.bp.fn \o ".md5")]_vars

\* C4 witness: the run of {boot, system} as raw images with verify on is done
C4_Witness ==
    /\ pc = "done"
    /\ args.nandroid /\ args.verify
    /\ fs.log = <<"boot.tar.gz", "boot.tar.gz.md5", "system.tar.gz", "system.tar.gz.md5">>

\* the files of plan entry i as they are in filesystem f
Kept(f, i) ==
    LET has(fn) == \E k \in 1..Len(f.files) : f.files[k].key = fn
        get(fn) == f.files[CHOOSE k \in 1..Len(f.files) : f.files[k].key = fn].val
        fn == plan[i].val.fn
    IN  <<has(fn), IF has(fn) THEN get(fn) ELSE <<>>,
          has(fn \o ".md5"), IF has(fn \o ".md5") THEN get(fn \o ".md5") ELSE <<>> >>

\* C5: an error ends the run: nothing is done after it, the partition that
\* failed is not taken up again, the partitions after it get no command and
\* no file, and the files of the partitions done before stay as they were
C5_FirstErrorStops ==
    /\ [](/\ err.type # "" => pc \in {"raised", "exit"}
          /\ pc = "raised" /\ bk.key # "" =>
                /\ bk.key = plan[idx].key
                /\ \A j \in (idx + 1)..Len(plan) :
                      /\ ~HasFile(plan[j].val.fn)
                      /\ ~HasFile(plan[j].val.fn \o ".md5")
                      /\ \A i \in 1..Len(cmds) : cmds[i].part # plan[j].key
                /\ \A j \in 1..(idx - 1) : HasFile(plan[j].val.fn))
    /\ [][/\ ~Ended
          /\ \A j \in 1..(idx - 1) : Kept(fs', j) = Kept(fs, j)]_vars

\* C5 witness: the second of four partitions failed its digest comparison
C5_Witness ==
    /\ pc = "raised"
    /\ err.msg = "md5sum mismatch"
    /\ Len(plan) = 4
    /\ idx = 2
    /\ HasFile(plan[1].val.fn)

\* the filesystem type really_mount finds for the partition in hand
Found ==
    LET hits == {i \in 1..Len(mtab) :
                    mtab[i].dev = "/dev/block/" \o bk.pi.devname
                        \/ mtab[i].node = bk.pi.mountpoint}
    IN  IF hits = {} THEN None
        ELSE mtab[CHOOSE i \in hits : \A j \in hits : i <= j].type

MountErrors == {"could not mount", "expected filesystem, but found"}

\* C6: for a tarball plan, a transfer is under way only if the type found in
\* the mount table is the one of the inventory; otherwise reading the table
\* raises the mount error, with no output file for the partition, no port
\* reserved, no transfer command, and the earlier partitions' files in place
C6_MountTypeChecked ==
    /\ [](bk.key # "" /\ bk.bp.taropts # None =>
            LET started == \/ bk.port # 0 \/ bk.child # "none" \/ HasFile(bk.bp.fn)
                           \/ \E i \in 1..Len(cmds) :
                                 /\ cmds[i].part = bk.key
                                 /\ cmds[i].cmd \in {"forward", "pipe_out"}
            IN  /\ started => Found = bk.pi.fstype
                /\ pc = "raised" /\ err.msg \in MountErrors =>
                      /\ Found # bk.pi.fstype
                      /\ ~started
                      /\ \A j \in 1..(idx - 1) : HasFile(plan[j].val.fn))
    /\ [][pc = "mount_read" /\ Found # bk.pi.fstype =>
              pc' = "raised" /\ err'.msg \in MountErrors /\ fs' = fs]_vars

\* C6 witness: system, second in the plan, is found mounted as vfat
C6_Witness ==
    /\ pc = "raised"
    /\ err.msg = "expected filesystem, but found"
    /\ idx = 2
    /\ bk.pi.fstype = "ext4"
    /\ Found = "vfat"
    /\ HasFile(plan[1].val.fn)
    /\ ~HasFile(bk.bp.fn)

\* v >= (1, 0, 32), spelled out
AtLeast_1_0_32(v) ==
    \/ v[1] > 1
    \/ /\ v[1] = 1
       /\ Len(v) >= 2
       /\ \/ v[2] > 0
          \/ v[2] = 0 /\ Len(v) >= 3 /\ v[3] >= 32

\* C8: sensible_transport, for every request and bridge version: no request
\* gives pipe_xo from 1.0.32 on and tcp below; a pipe_xo request below 1.0.32
\* gives tcp; a pipe_bin request from 1.0.32 on gives pipe_xo; tcp and
\* pipe_b64 requests are kept; the result is a transport, and never pipe_xo
\* below 1.0.32
C8_SensibleTransport ==
    [][pc = "sensible_transport" =>
        LET req == args.transport
            res == args'.transport
            new == AtLeast_1_0_32(adbversion)
        IN  /\ (req = None /\ new => res = "pipe_xo")
            /\ (req = None /\ ~new => res = "tcp")
            /\ (req = "pipe_xo" /\ ~new => res = "tcp")
            /\ (req = "pipe_bin" /\ new => res = "pipe_xo")
            /\ (req \in {"tcp", "pipe_b64"} => res = req)
            /\ res \in adbxp
            /\ (~new => res # "pipe_xo")]_vars

\* C8 witness: an old bridge, past sensible_transport, running over tcp
C8_Witness ==
    /\ pc = "check_TWRP"
    /\ adbversion = <<1, 0, 31>>
    /\ args.transport = "tcp"

\* C9: a pipe_bin request below 1.0.32 stays pipe_bin on a Linux host and
\* becomes tcp on any other host
C9_RawShellPipeOnlyOnLinux ==
    [][pc = "sensible_transport" /\ args.transport = "pipe_bin"
         /\ ~AtLeast_1_0_32(adbversion) =>
        args'.transport = (IF host.platform \in {"linux", "linux2"}
                          THEN "pipe_bin" ELSE "tcp")]_vars

\* the first places of the distinct elements of a sequence
FirstPlaces(s) == {i \in 1..Len(s) : \A j \in 1..(i - 1) : s[j] # s[i]}

\* C10: in raw-image mode the plan holds exactly the extras and the enabled
\* standard partitions, each as <name>.tar.gz with no archive options, keyed
\* in the order extras as given, then boot, recovery, system, userdata, cache
C10_RawImagePlan ==
    pc = "check_missing" /\ args.nandroid =>
        LET std == SelectSeq(<<"boot", "recovery", "system", "userdata", "cache">>,
                             LAMBDA x : args[x])
            rp == args.extra \o std
            keys == [i \in 1..Len(plan) |-> plan[i].key]
        IN  /\ Range(keys) = Range(rp)
            /\ Len(keys) = Cardinality(Range(rp))
            /\ \A i \in 1..Len(plan) :
                  /\ plan[i].val.fn = plan[i].key \o ".tar.gz"
                  /\ plan[i].val.taropts = None
            /\ \A i, j \in 1..Len(keys) :
                  i < j => \E a \in FirstPlaces(rp), b \in FirstPlaces(rp) :
                              a < b /\ rp[a] = keys[i] /\ rp[b] = keys[j]

\* C10 witness: a raw-image plan of two extras and three standard partitions
C10_Witness ==
    /\ pc = "check_missing"
    /\ args.nandroid
    /\ args.extra = <<"modem", "boot">>
    /\ args.boot /\ args.system /\ args.cache /\ ~args.recovery /\ ~args.userdata
    /\ OdictKeys(plan) = <<"modem", "boot", "system", "cache">>

InPlan(k) == \E i \in 1..Len(plan) : plan[i].key = k

Entry(k) == plan[CHOOSE i \in 1..Len(plan) : plan[i].key = k].val

\* k is named through --extra
Named(k) == \E i \in 1..Len(args.extra) : args.extra[i] = k

C12_ExtrasAreRaw ==
    pc = "check_missing" =>
        \A i \in 1..Len(args.extra) :
            InPlan(args.extra[i]) /\ Entry(args.extra[i]).taropts = None

\* C13: a dry run ends once the partition map and the plan have been shown:
\* the output directory is never created, no file written, and no mount,
\* unmount, port-forward or transfer command issued
C13_DryRun ==
    args.dry_run =>
        /\ ~fs.dir /\ fs.files = <<>> /\ fs.log = <<>>
        /\ ~Touched
        /\ pc \in {"check_adb_version", "sensible_transport", "check_TWRP",
                    "build_partmap", "plan_backup", "check_missing", "exit", "raised"}
        /\ shown => pc = "exit"
        /\ pc = "exit" /\ err.type = "p.exit" => shown /\ missing = {}

\* C13 witness: a dry run has shown a plan of four partitions and ended
C13_Witness ==
    /\ args.dry_run
    /\ pc = "exit"
    /\ err.type = "p.exit"
    /\ shown
    /\ Len(plan) = 4
    /\ Len(partmap) = 4

\* C14: when adb cannot be called, its version cannot be determined or is
\* below 1.0.31, the run ends in check_adb_version with an error, no command
\* having been sent to the device and nothing read or written
C14_BridgeUnavailable ==
    host.adb.raises # "" \/ TupleLess(host.adb.version, <<1, 0, 31>>) =>
        /\ pc \in {"check_adb_version", "exit"}
        /\ pc = "exit" => err.type = "p.error"
        /\ cmds = <<>>
        /\ partmap = <<>>
        /\ ~fs.dir /\ fs.files = <<>>

\* C14 witness: adb 1.0.30 has been refused
C14_Witness ==
    /\ pc = "exit"
    /\ host.adb.version = <<1, 0, 30>>
    /\ err.msg = "found ADB version, but version >= 1.0.31 is required"
    /\ cmds = <<>>

Malformed == {i \in 1..Len(device.base) :
                Len(device.base[i]) = 1 /\ device.base[i] # EmptyLine}

\* the lines of the base record that give NPARTS
CountLines == {i \in 1..Len(device.base) :
                 Len(device.base[i]) >= 2 /\ device.base[i][1] = "NPARTS"}

\* the text after 'NPARTS=' on the last such line
CountText ==
    LET l == device.base[CHOOSE i \in CountLines : \A j \in CountLines : j <= i]
    IN  IF Len(l) = 2 THEN l[2] ELSE "not a number"

Digits == {"0", "1", "2", "3", "4", "5"}

\* the base record is well formed and declares a partition count
Declares == Malformed = {} /\ CountLines # {} /\ CountText \in Digits

\* the count declared
Declared == CHOOSE n \in 0..5 : Numerals[n + 1] = CountText

\* the indices of the partition records read so far, in the order read
Visited ==
    LET reads == SelectSeq(cmds, LAMBDA c : c.cmd = "cat uevent")
    IN  [i \in 1..(Len(reads) - 1) |-> reads[i + 1].opt]

\* the canonical name partition i is filed under
NameOf(i) ==
    LET hits == {j \in 1..Len(device.fstab) :
                    device.fstab[j].key = "/dev/block/" \o device.parts[i].DEVNAME}
        mp == IF hits = {} THEN None
              ELSE device.fstab[CHOOSE j \in hits : TRUE].val.mountpoint
    IN  Canonical(Lower(device.parts[i].PARTNAME), mp)

\* C16: for a well-formed base record declaring NPARTS = n, build_partmap
\* reads the partition records 1..n once each in ascending order, and the
\* map has one entry for each distinct canonical name, that of the last
\* partition filed under the name
C16_VisitsEachOnce ==
    Declares /\ pc # "build_partmap" =>
        /\ pc = "plan_backup"
        /\ Visited = [i \in 1..Declared |-> i]
        /\ Len(partmap) = Cardinality({NameOf(i) : i \in 1..Declared})
        /\ {partmap[k].key : k \in 1..Len(partmap)} = {NameOf(i) : i \in 1..Declared}
        /\ \A k \in 1..Len(partmap) :
              /\ NameOf(partmap[k].val.partn) = partmap[k].key
              /\ \A i \in 1..Declared :
                    NameOf(i) = partmap[k].key => i <= partmap[k].val.partn

\* C16 witness: two partitions filed under one name leave one entry
C16_Witness ==
    /\ pc = "plan_backup"
    /\ Declares /\ Declared = 2
    /\ Visited = <<1, 2>>
    /\ Len(partmap) = 1
    /\ partmap[1].val.partn = 2

\* the standard name a raw name designates, if any
ByName(n) == IF n \in {"system", "userdata", "cache"} THEN n ELSE None

\* the standard name a mountpoint designates, if any
ByMount(m) ==
    CASE m = "/system" -> "system"
      [] m = "/data" -> "userdata"
      [] m = "/cache" -> "cache"
      [] OTHER -> None

\* C17: when the raw name and the mountpoint of a partition designate
\* different standard names, it is filed under the mountpoint's
C17_MountpointWins ==
    pc = "plan_backup" =>
        \A k \in 1..Len(partmap) :
            LET n == ByName(partmap[k].val.partname)
                m == ByMount(partmap[k].val.mountpoint)
            IN  n # None /\ m # None /\ n # m => partmap[k].key = m

\* the lower-case names among those the model's devices give rise to
LowerCase == {"system", "userdata", "cache", "app", "boot", "modem", "sbl1", "recovery"}

\* C18: canonicalization is idempotent: the name a partition is filed under,
\* canonicalized again with the same mountpoint, is itself; and it is in
\* lower case when it is not system, userdata or cache
C18_CanonicalIdempotent ==
    pc = "plan_backup" =>
        \A k \in 1..Len(partmap) :
            /\ Canonical(Lower(partmap[k].key), partmap[k].val.mountpoint) = partmap[k].key
            /\ partmap[k].key \in LowerCase

\* C18 witness: APP is filed once as app and once, mounted on /system, as system
C18_Witness ==
    /\ pc = "plan_backup"
    /\ Len(partmap) = 2
    /\ device.parts[1].PARTNAME = "APP" /\ device.parts[2].PARTNAME = "APP"
    /\ partmap[1].key = "app"
    /\ partmap[2].key = "system"

\* C19: when the base record has no NPARTS or one that is not a number,
\* build_partmap ends the run with an error before any partition record is
\* read: no map, no backup directory, no mount or transfer
C19_NoCountIsFatal ==
    CountLines = {} \/ CountText \notin Digits =>
        /\ pc \in {"check_adb_version", "sensible_transport", "check_TWRP",
                    "build_partmap", "exit", "raised"}
        /\ pc = "raised" => err.type \in {"KeyError", "ValueError", "NameError"}
        /\ partmap = <<>>
        /\ Visited = <<>>
        /\ \A i \in 1..Len(cmds) : cmds[i].cmd # "cat size"
        /\ ~fs.dir /\ fs.files = <<>>
        /\ ~Touched

\* C19 witness: NPARTS=x has ended the run with ValueError
C19_Witness ==
    /\ pc = "raised"
    /\ err.type = "ValueError"
    /\ device.base = <<<<"NPARTS", "x">>>>
    /\ Len(cmds) = 4

\* C20: a line without '=' in the base record is skipped without failing:
\* uevent_dict completes, and what it returns is what the well-formed lines
\* give, so a count they declare is the one build_partmap goes by
C20_MalformedLineSkipped ==
    Malformed # {} /\ pc # "build_partmap" =>
        /\ err.type # "NameError"
        /\ CountLines # {} /\ CountText \in Digits =>
              pc = "plan_backup" /\ Visited = [i \in 1..Declared |-> i]

\* the transfer of the partition in hand has been set going
Begun ==
    \/ bk.port # 0 \/ bk.child # "none"
    \/ \E i \in 1..Len(cmds) :
          cmds[i].part = bk.key /\ cmds[i].cmd \in {"forward", "pipe_out"}

\* the places of the mount table that hold the partition in hand at its
\* own mountpoint
Here ==
    {i \in 1..Len(mtab) :
        mtab[i].dev = DevPath(bk.pi) /\ mtab[i].node = bk.pi.mountpoint}

\* C21: the transfer of a tarball is set going only while the partition is
\* mounted read-only at its mountpoint; when neither mount command took
\* effect the partition fails instead, whatever was mounted before
C21_TarOnlyWhenReadOnly ==
    bk.key # "" /\ bk.bp.taropts # None /\ Begun =>
        \E i \in Here : mtab[i].ro

\* the option variants really_umount goes through, one per round
Variants == <<"", "-f", "-l", "-r">>

\* the commands of one kind issued for the partition in hand
Issued(c) == SelectSeq(cmds, LAMBDA x : x.cmd = c /\ x.part = bk.key)

\* C22: the rounds of really_umount use the variants default, -f, -l, -r
\* in this order, one per round: the k-th unmount command for the device,
\* and the k-th for the mountpoint, carries the k-th variant
C22_UmountVariants ==
    \A c \in {"umount dev", "umount node"} :
        LET us == Issued(c)
        IN  \A k \in 1..Len(us) : k <= Len(Variants) /\ us[k].opt = Variants[k]

\* C23: the unmount error is raised only when the variants are used up:
\* while the device or mountpoint is still in the mount table and a variant
\* is left, a further unmount command is sent (so with the device mounted
\* at two mountpoints, a first successful unmount is followed by another)
C23_UmountExhausts ==
    pc = "raised" /\ err.msg = "could not unmount" =>
        /\ Len(Issued("umount dev")) = Len(Variants)
        /\ Len(Issued("umount node")) = Len(Variants)

\* the places of the mount table that hold the device or the mountpoint of
\* the partition in hand
Mounted ==
    {i \in 1..Len(mtab) : Matches(mtab[i], DevPath(bk.pi), bk.pi.mountpoint)}

\* C24: the transfer of a raw image is set going only when the mount table
\* read after the unmount commands holds neither the partition's device nor
\* its mountpoint; otherwise the unmount error is raised, with no port
\* reserved, no transfer spawned, no socket and no output file; no more
\* than two unmount commands per variant are sent for a partition
C24_RawOnlyWhenUnmounted ==
    /\ [](bk.key # "" /\ bk.bp.taropts = None =>
            /\ Begun \/ HasFile(bk.bp.fn) => Mounted = {}
            /\ pc = "raised" /\ err.msg = "could not unmount" =>
                  /\ Mounted # {}
                  /\ ~Begun /\ bk.sock = "none" /\ ~HasFile(bk.bp.fn)
            /\ Len(Issued("umount dev")) <= Len(Variants)
            /\ Len(Issued("umount node")) <= Len(Variants))
    /\ [][pc = "umount_read" =>
            IF Mounted # {}
            THEN pc' = "raised" /\ err'.msg = "could not unmount"
            ELSE pc' = "transport"]_vars

\* C24 witness: after all eight unmount commands failed for the second
\* partition, a raw image whose mountpoint is still in the table, the run
\* has ended with the unmount error, the first partition's file in place
C24_Witness ==
    /\ pc = "raised"
    /\ err.msg = "could not unmount"
    /\ idx = 2
    /\ bk.bp.taropts = None
    /\ Mounted # {}
    /\ Len(Issued("umount dev")) + Len(Issued("umount node")) = 2 * Len(Variants)
    /\ HasFile(plan[1].val.fn)
    /\ ~HasFile(bk.bp.fn)

\* the last command sent is of this kind, for the partition in hand
LastIs(c) ==
    cmds # <<>> /\ cmds[Len(cmds)].cmd = c /\ cmds[Len(cmds)].part = bk.key

\* C25: really_forward tries the candidates 5600+partn, 5601+partn, ... in
\* ascending order and returns the first one whose forward succeeds: the
\* port reserved is that of the last attempt, and a failed attempt is
\* followed by the next candidate, so that it ends the partition only when
\* it was the last of the range
C25_ForwardFirstFree ==
    bk.key # "" =>
        LET tries == Issued("forward")
        IN  /\ \A k \in 1..Len(tries) : tries[k].opt = 5600 + bk.pi.partn + k - 1
            /\ bk.port # 0 => bk.port = tries[Len(tries)].opt
            /\ pc = "raised" /\ LastIs("forward") => Len(tries) = 5700 - 5600

\* C26: the release of the port is tried at most three times; a failed try
\* that is not the third is followed by another, and only when all three
\* failed does the partition end, with the error of line 270
C26_UnforwardRetries ==
    bk.key # "" =>
        LET tries == Issued("forward --remove")
        IN  /\ Len(tries) <= 3
            /\ pc = "raised" /\ LastIs("forward --remove") =>
                  /\ Len(tries) = 3
                  /\ err.type = "RuntimeError"

\* the ports a forward was asked for and no removal since
Outstanding ==
    LET fw == SelectSeq(cmds, LAMBDA x : x.cmd \in {"forward", "forward --remove"})
    IN  {fw[i].opt : i \in {i \in 1..Len(fw) :
                              /\ fw[i].cmd = "forward"
                              /\ \A j \in (i + 1)..Len(fw) :
                                    fw[j].cmd = "forward" \/ fw[j].opt # fw[i].opt}}

\* C27: over TCP at most one port is reserved at a time, and it belongs to
\* the partition in hand; the next partition is taken in hand, and its
\* forward asked for, only when the port of the one before is released
C27_OneLease ==
    /\ [](/\ Cardinality(Outstanding) <= 1
          /\ bk.port # 0 =>
                /\ args.transport = "tcp"
                /\ bk.key # "" /\ pc # "loop"
                /\ bk.port - (5600 + bk.pi.partn) \in 0..(5700 - 5600 - 1)
                /\ Outstanding \subseteq {bk.port})
    /\ [][bk'.key # bk.key => bk.port = 0]_vars
    /\ [][Len(cmds') > Len(cmds) /\ cmds'[Len(cmds')].cmd = "forward" =>
            bk.port = 0 /\ Outstanding = {}]_vars

\* C27 witness: the port of the second partition is reserved after that of
\* the first was released
C27_Witness ==
    /\ idx = 2
    /\ pc = "tcp_spawn"
    /\ bk.port = 5600 + bk.pi.partn
    /\ Outstanding = {bk.port}
    /\ \E i \in 1..Len(cmds) :
          cmds[i].cmd = "forward --remove" /\ cmds[i].part = plan[1].key

\* C28: over TCP, a partition that ends after its port was reserved, be it
\* with success or with an error such as the digest mismatch, has had its
\* remote process waited on and the release of the port tried
C28_LeaseReleased ==
    Ended /\ bk.key # "" /\ (bk.port # 0 \/ Issued("forward --remove") # <<>>) =>
        /\ bk.child = "waited"
        /\ Issued("forward --remove") # <<>>

\* C29: with verify on and the stream delivered unchanged, the host's read
\* of /tmp/md5out gives the whole digest of the device in every order of
\* the steps: the read never finds the file empty, and the two digests agree
C29_DigestReadComplete ==
    /\ bk.key # "" /\ args.verify
    /\ bk.child # "none" /\ bk.payload = device.content[bk.pi.devname]
    =>
        /\ err.type # "IndexError"
        /\ pc = "verify_compare" \/ Compared =>
              /\ bk.devicemd5 = Md5(device.content[bk.pi.devname])
              /\ bk.devicemd5 = bk.localmd5

\* C30: when no candidate port can be forwarded, the partition ends with
\* the port reservation error of line 236 after at most one attempt per
\* candidate, with no transfer spawned, no socket and no output file
C30_NoPortIsReservationError ==
    pc = "raised" /\ LastIs("forward") =>
        /\ err.type = "RuntimeError"
        /\ err.msg = "could not ADB-forward a TCP port"
        /\ Len(Issued("forward")) <= 5700 - 5600
        /\ Issued("pipe_out") = <<>>
        /\ bk.child = "none" /\ bk.sock = "none" /\ ~HasFile(bk.bp.fn)

====
